---------------------------- MODULE Spec2Model ----------------------------
(***************************************************************************)
(* Model of the incremental dungeon generator of matjam/sword              *)
(* (internal/mapgen, internal/grid, internal/terrain).                     *)
(*                                                                         *)
(* One MapGenerator is modelled.  Its fields are the variables below.  The *)
(* seeded random stream is modelled as an input: every rng.Intn(n) call is *)
(* a value drawn with \E from 0..n-1, and a Fisher-Yates shuffle is "any   *)
(* permutation".  Slices that are only ever read right after they were     *)
(* shuffled (incompleteRows, incompleteCols, visitedMazeLocations,         *)
(* connectors, rootConnectors) are kept as sets: reading the head of a     *)
(* freshly shuffled slice is choosing any member.  Connector records live  *)
(* in connectorGrid; the two connector slices hold pointers to them, which *)
(* the model writes as the cell of the record.  The debug colour of a      *)
(* region is left out.                                                     *)
(***************************************************************************)
EXTENDS Integers, Sequences, FiniteSets, TLC

\* ---- bounds of the model ------------------------------------------------
MaxWidth == 9
MaxHeight == 7
\* (Width/2) * (Height/2), the number of odd positions a room can be drawn at
MaxAnchors == 8
MaxAttempts == 2
\* curRoomAttempts is an unbounded int; the model stops counting here
AttemptCap == 4
\* the last id World.nextID hands out
MaxUniqueID == 6
\* Width * Height of the grids that Set is exercised on by itself
GridMaxCells == 4
\* the grid and the attempt budget of the wide dungeon
WideWidth == 11
WideHeight == 5
WideAttempts == 2
\* the side of the square grid of the dungeon without rooms
MazeSide == 7
\* the longest side of a rectangle handed to SetRect by itself
MaxRectSide == 3

\* ---- program constants --------------------------------------------------
Nil == -1
\* a nil *Connector
NoConnector == [region1 |-> Nil, region2 |-> Nil]

\* terrain.Type
Stone == "Stone"
Room == "Room"
Corridor == "Corridor"
Door == "Door"

\* GenerationPhase
PhaseRooms == "Rooms"
PhaseMazes == "Mazes"
PhaseConnectors == "Connectors"
PhaseConnectingRegions == "ConnectingRegions"
PhaseRemoveDeadEnds == "RemoveDeadEnds"
PhaseDone == "Done"

roomSizes ==
  << <<3, 3>>, <<3, 5>>, <<5, 3>>, <<7, 5>>, <<5, 7>>, <<7, 7>>,
     <<9, 7>>, <<7, 9>>, <<9, 9>>, <<11, 9>>, <<9, 11>>, <<11, 11>> >>

\* Direction
North == "North"
South == "South"
East == "East"
West == "West"
Directions == {North, South, East, West}

VARIABLES
  Width, Height,            \* MapGenerator.Width / Height
  phase,                    \* MapGenerator.phase
  maxRoomAttempts,
  curRoomAttempts,
  terrainGrid,              \* [cell -> terrain.Type]
  regionGrid,               \* [cell -> region id or Nil]
  connectorGrid,            \* [cell -> NoConnector or [region1, region2]]
  roomList,                 \* sequence of Room records
  unconnectedRooms,         \* sequence of Room records
  x, y,                     \* maze cursor
  incompleteRows,
  incompleteCols,
  visitedMazeLocations,
  walking,
  regions,                  \* keys of the map mg.regions
  curRegionID,
  currentRegion,
  rootRegion,
  connectors,
  rootConnectors,
  deadEnds,
  deadEndsRemoved,
  deadEndsPreviouslyRemoved,
  pc,                       \* position of the running call
  inUpdate,                 \* TRUE while a call of Update has not returned
  world                     \* the ecs.World: a record of its fields

\* the fields of the MapGenerator
generatorVars ==
  <<Width, Height, phase, maxRoomAttempts, curRoomAttempts, terrainGrid,
    regionGrid, connectorGrid, roomList, unconnectedRooms, x, y,
    incompleteRows, incompleteCols, visitedMazeLocations, walking, regions,
    curRegionID, currentRegion, rootRegion, connectors, rootConnectors,
    deadEnds, deadEndsRemoved, deadEndsPreviouslyRemoved, pc, inUpdate>>

vars == <<generatorVars, world>>

\* ---- helpers ------------------------------------------------------------
Cells == (0 .. Width - 1) \X (0 .. Height - 1)

InBounds(px, py) == px >= 0 /\ px < Width /\ py >= 0 /\ py < Height

\* The cell kept at index i of the slice Grid.grid, which is row-major.
CellAt(i) == <<i % Width, i \div Width>>

\* Grid.Get: the zero value of T out of bounds, m.grid[y*m.Width+x] inside
Get(g, zero, px, py) ==
  IF InBounds(px, py) THEN g[CellAt(py * Width + px)] ELSE zero

\* Grid.Set testing x and y only against 0
Set_noUpperBound(g, px, py, t) ==
  IF px < 0 \/ py < 0 \/ py * Width + px >= Width * Height THEN g
  ELSE [g EXCEPT ![CellAt(py * Width + px)] = t]

\* Grid.Set: nothing out of bounds, m.grid[y*m.Width+x] = t inside
Set(g, px, py, t) ==
  IF InBounds(px, py) THEN [g EXCEPT ![CellAt(py * Width + px)] = t] ELSE g

\* Grid.SetRect
SetRect(g, px, py, w, h, t) ==
  IF ~InBounds(px, py) THEN g
  ELSE [c \in DOMAIN g |->
          IF c[1] >= px /\ c[1] < px + w /\ c[2] >= py /\ c[2] < py + h
          THEN t ELSE g[c]]

TerrainAt(px, py) == Get(terrainGrid, Stone, px, py)
RegionAt(px, py) == Get(regionGrid, Nil, px, py)

\* ---- construction -------------------------------------------------------
\* NewMapGenerator: every odd row 1 <= y < Height-1 is incomplete
OddRows(h) == {r \in 1 .. h - 2 : r % 2 = 1}
OddCols(w) == {c \in 1 .. w - 2 : c % 2 = 1}

\* NewMapGenerator(width, height, seed, attempts); the seed is the source of
\* the draws the actions take with \E.
NewMapGenerator(width, height, attempts) ==
  /\ Width = width
  /\ Height = height
  /\ maxRoomAttempts = attempts
  /\ phase = PhaseRooms
  /\ curRoomAttempts = 0
  /\ terrainGrid = [c \in (0 .. width - 1) \X (0 .. height - 1) |-> Stone]
  /\ regionGrid = [c \in (0 .. width - 1) \X (0 .. height - 1) |-> Nil]
  /\ connectorGrid =
       [c \in (0 .. width - 1) \X (0 .. height - 1) |-> NoConnector]
  /\ roomList = <<>>
  /\ unconnectedRooms = <<>>
  /\ x = 0
  /\ y = 0
  /\ incompleteRows = OddRows(height)
  /\ incompleteCols = {}
  /\ visitedMazeLocations = {}
  /\ walking = FALSE
  /\ regions = {}
  /\ curRegionID = 0
  /\ currentRegion = Nil
  /\ rootRegion = Nil
  /\ connectors = {}
  /\ rootConnectors = {}
  /\ deadEnds = <<>>
  /\ deadEndsRemoved = 0
  /\ deadEndsPreviouslyRemoved = 0
  /\ pc = "idle"
  /\ inUpdate = FALSE

\* ---- the ECS world ------------------------------------------------------
\* A Go map is written as the set of its <<key, value>> pairs.
MapHas(m, k) == \E p \in m : p[1] = k

\* m[k] of a key that is present
MapGet(m, k) == (CHOOSE p \in m : p[1] = k)[2]

\* m[k] = v
MapPut(m, k, v) == {p \in m : p[1] # k} \cup {<<k, v>>}

MapKeys(m) == {p[1] : p \in m}

\* The entities of the tests, and what their New() returns: the names of the
\* components, in order.
EntityKinds == {"TestEntityWithNoComponents", "TestEntityWithComponents"}

EntityNew(kind) ==
  IF kind = "TestEntityWithComponents"
  THEN <<"location", "move", "render", "health">>
  ELSE <<>>

\* Entity.EntityName: "test" for both
EntityName(kind) == "test"

\* The systems of the tests, and what their Components() returns.
SystemKinds == {"movement", "test"}

SystemComponentNames(system) ==
  IF system = "movement" THEN <<"move", "location">> ELSE <<>>

\* The components AddComponent is called with directly.
ComponentNames == {"location", "move"}

\* NewWorld
NewWorld ==
  [nextUniqueID |-> 1, entities |-> {}, entitiesByName |-> {},
   systems |-> {}, components |-> {}, entityComponents |-> {},
   systemComponents |-> {}, componentEntities |-> {}]

\* World.AddSystem: the system is registered and gets an empty list of
\* component ids for every component it operates on.
AddSystem(w, system) ==
  [w EXCEPT
     !.systems = MapPut(@, system, system),
     !.systemComponents =
       MapPut(@, system,
              {<<SystemComponentNames(system)[i], <<>>>> :
                 i \in 1 .. Len(SystemComponentNames(system))})]

\* World.AddComponent appending to the entity's components, as a slice of
\* components would, instead of assigning entityComponents[entityID][name]
AddComponent_append(w, entityID, name) ==
  LET id == w.nextUniqueID
      mine == IF MapHas(w.entityComponents, entityID)
              THEN MapGet(w.entityComponents, entityID) ELSE {}
      entities == IF MapHas(w.componentEntities, name)
                  THEN MapGet(w.componentEntities, name) ELSE <<>>
  IN  [w EXCEPT
         !.nextUniqueID = id + 1,
         !.components = MapPut(@, id, name),
         !.entityComponents =
           MapPut(@, entityID, mine \cup {<<name, id>>}),
         !.systemComponents =
           {<<sc[1], {<<l[1], IF l[1] = name THEN Append(l[2], id) ELSE l[2]>> :
                        l \in sc[2]}>> : sc \in @},
         !.componentEntities = MapPut(@, name, Append(entities, entityID))]

\* World.AddComponent: a fresh component id is taken, the component is
\* stored, entityComponents[entityID][name] is assigned (an entity that has
\* the component already is only logged), the id is appended to the list of
\* every system that operates on the component, and the entity is appended
\* to componentEntities[name].
AddComponent(w, entityID, name) ==
  LET id == w.nextUniqueID
      mine == IF MapHas(w.entityComponents, entityID)
              THEN MapGet(w.entityComponents, entityID) ELSE {}
      entities == IF MapHas(w.componentEntities, name)
                  THEN MapGet(w.componentEntities, name) ELSE <<>>
  IN  [w EXCEPT
         !.nextUniqueID = id + 1,
         !.components = MapPut(@, id, name),
         !.entityComponents =
           MapPut(@, entityID, MapPut(mine, name, id)),
         !.systemComponents =
           {<<sc[1], {<<l[1], IF l[1] = name THEN Append(l[2], id) ELSE l[2]>> :
                        l \in sc[2]}>> : sc \in @},
         !.componentEntities = MapPut(@, name, Append(entities, entityID))]

\* The loop of AddEntity over the components New() returned.
RECURSIVE AddComponents(_, _, _)
AddComponents(w, entityID, names) ==
  IF names = <<>> THEN w
  ELSE AddComponents(AddComponent(w, entityID, Head(names)), entityID,
                     Tail(names))

\* World.AddEntity; the id it returns is w.nextUniqueID.
AddEntity(w, kind) ==
  LET id == w.nextUniqueID
      w1 == [w EXCEPT !.nextUniqueID = id + 1,
                      !.entities = MapPut(@, id, kind)]
      w2 == AddComponents(w1, id, EntityNew(kind))
      byName == IF MapHas(w2.entitiesByName, EntityName(kind))
                THEN MapGet(w2.entitiesByName, EntityName(kind)) ELSE <<>>
  IN  [w2 EXCEPT
         !.entitiesByName = MapPut(@, EntityName(kind), Append(byName, id))]

\* What a loop over a Go map appends: the values in some order.
RECURSIVE MapValues(_)
MapValues(m) ==
  IF m = {} THEN <<>>
  ELSE LET p == CHOOSE q \in m : TRUE
       IN  <<p[2]>> \o MapValues(m \ {p})

\* World.GetComponentIDsForEntity: the ids of entityComponents[entityID], in
\* the order of Go's map iteration (any order).
GetComponentIDsForEntity(w, entityID) ==
  IF MapHas(w.entityComponents, entityID)
  THEN MapValues(MapGet(w.entityComponents, entityID))
  ELSE <<>>
\* World.IterateComponents: the arguments f is called with, in order, and
\* whether the loop ends in an index out of range. A system that is not
\* registered or has no components gets no call. The number of passes is the
\* length of the list of the system's first component; pass i reads element
\* i of the list of every component.
IterateComponents(w, system) ==
  LET systemComponents == IF MapHas(w.systemComponents, system)
                          THEN MapGet(w.systemComponents, system) ELSE {}
  IN  IF Cardinality(systemComponents) = 0
      THEN [calls |-> <<>>, panic |-> FALSE]
      ELSE LET entityCount ==
                 Len(MapGet(systemComponents, SystemComponentNames(system)[1]))
               short(i) == \E l \in systemComponents : Len(l[2]) < i
               done == IF \E i \in 1 .. entityCount : short(i)
                       THEN (CHOOSE i \in 1 .. entityCount :
                               /\ short(i)
                               /\ \A j \in 1 .. i - 1 : ~short(j)) - 1
                       ELSE entityCount
           IN  [calls |-> [i \in 1 .. done |->
                             {<<l[1], l[2][i]>> : l \in systemComponents}],
                panic |-> done < entityCount]

Init ==
  /\ \E width \in 1 .. MaxWidth, height \in 1 .. MaxHeight,
        attempts \in 0 .. MaxAttempts :
       /\ (width \div 2) * (height \div 2) <= MaxAnchors
       /\ NewMapGenerator(width, height, attempts)
  /\ world = NewWorld

\* ---- rooms --------------------------------------------------------------
\* Room.Overlaps
Overlaps(r, other) ==
  LET xOverlap == r.X < other.X + other.Width /\ r.X + r.Width > other.X
      yOverlap == r.Y < other.Y + other.Height /\ r.Y + r.Height > other.Y
  IN  xOverlap /\ yOverlap

\* roomFits without the loop over roomList
roomFits_noOverlapTest(room) ==
  ~(room.X < 1 \/ room.Y < 1 \/ room.X + room.Width > Width - 1
      \/ room.Y + room.Height > Height - 1)

\* roomFits testing against Width and Height instead of Width-1 and Height-1
roomFits_offByOne(room) ==
  /\ ~(room.X < 1 \/ room.Y < 1 \/ room.X + room.Width > Width
         \/ room.Y + room.Height > Height)
  /\ \A i \in 1 .. Len(roomList) : ~Overlaps(room, roomList[i])

\* roomFits
roomFits(room) ==
  /\ ~(room.X < 1 \/ room.Y < 1 \/ room.X + room.Width > Width - 1
         \/ room.Y + room.Height > Height - 1)
  /\ \A i \in 1 .. Len(roomList) : ~Overlaps(room, roomList[i])

\* nextRegion without curRegionID++: every region is minted with the same id
nextRegion_noIncrement ==
  /\ currentRegion' = curRegionID
  /\ regions' = regions \cup {curRegionID}
  /\ curRegionID' = curRegionID

\* nextRegion: mints region curRegionID and enters it in mg.regions.
nextRegion ==
  /\ currentRegion' = curRegionID
  /\ regions' = regions \cup {curRegionID}
  /\ curRegionID' = curRegionID + 1

\* generateRooms switching to PhaseConnectors when no attempt is left
generateRooms_skipMazes ==
  /\ phase = PhaseRooms
  /\ pc = "idle"
  /\ inUpdate' = TRUE
  /\ IF curRoomAttempts < maxRoomAttempts
     THEN /\ nextRegion
          /\ pc' = "placing"
          /\ UNCHANGED phase
     ELSE /\ phase' = PhaseConnectors
          /\ UNCHANGED <<currentRegion, regions, curRegionID, pc>>
  /\ UNCHANGED <<Width, Height, maxRoomAttempts, curRoomAttempts,
                 terrainGrid, regionGrid, connectorGrid, roomList,
                 unconnectedRooms, x, y, incompleteRows, incompleteCols,
                 visitedMazeLocations, walking, rootRegion, connectors,
                 rootConnectors, deadEnds, deadEndsRemoved,
                 deadEndsPreviouslyRemoved, world>>

\* generateRooms, up to the head of its placement loop: a call with
\* attempts left mints the room's region and enters the loop; a call with
\* none left only switches the phase.
generateRooms ==
  /\ phase = PhaseRooms
  /\ pc = "idle"
  /\ inUpdate' = TRUE
  /\ IF curRoomAttempts < maxRoomAttempts
     THEN /\ nextRegion
          /\ pc' = "placing"
          /\ UNCHANGED phase
     ELSE /\ phase' = PhaseMazes
          /\ UNCHANGED <<currentRegion, regions, curRegionID, pc>>
  /\ UNCHANGED <<Width, Height, maxRoomAttempts, curRoomAttempts,
                 terrainGrid, regionGrid, connectorGrid, roomList,
                 unconnectedRooms, x, y, incompleteRows, incompleteCols,
                 visitedMazeLocations, walking, rootRegion, connectors,
                 rootConnectors, deadEnds, deadEndsRemoved,
                 deadEndsPreviouslyRemoved, world>>

\* Everything a room attempt (one pass of the placement loop) leaves alone.
RoomFrame ==
  UNCHANGED <<Width, Height, maxRoomAttempts, connectorGrid, unconnectedRooms,
              x, y, incompleteRows, incompleteCols, visitedMazeLocations,
              walking, regions, curRegionID, currentRegion, rootRegion,
              connectors, rootConnectors, deadEnds, deadEndsRemoved,
              deadEndsPreviouslyRemoved, inUpdate, world>>

\* The room of one pass with a position that is not held to odd coordinates
NewRoom_unaligned(i, rx, ry) ==
  [X |-> 1 + rx, Y |-> 1 + ry,
   Width |-> roomSizes[i][1], Height |-> roomSizes[i][2],
   Region |-> currentRegion]

\* The room of one pass of the loop: size index i, position draws rx, ry.
NewRoom(i, rx, ry) ==
  [X |-> 1 + rx * 2, Y |-> 1 + ry * 2,
   Width |-> roomSizes[i][1], Height |-> roomSizes[i][2],
   Region |-> currentRegion]

\* addRoom
addRoom(room) ==
  /\ terrainGrid' =
       SetRect(terrainGrid, room.X, room.Y, room.Width, room.Height, Room)
  /\ roomList' = Append(roomList, room)
  /\ regionGrid' =
       SetRect(regionGrid, room.X, room.Y, room.Width, room.Height,
               room.Region)

\* One pass of generateRooms' loop "for !successfullyPlacedRoom" whose room
\* fits: the room is added, the counter is incremented, the loop ends and the
\* phase test after it runs.
placeRoom ==
  /\ phase = PhaseRooms
  /\ pc = "placing"
  /\ Width \div 2 > 0 /\ Height \div 2 > 0
  /\ \E i \in 1 .. Len(roomSizes), rx \in 0 .. (Width \div 2) - 1,
        ry \in 0 .. (Height \div 2) - 1 :
       LET room == NewRoom(i, rx, ry) IN
         /\ roomFits(room)
         /\ addRoom(room)
         /\ curRoomAttempts' = IF curRoomAttempts < AttemptCap
                            THEN curRoomAttempts + 1 ELSE AttemptCap
         /\ pc' = "idle"
         /\ phase' = IF curRoomAttempts + 1 >= maxRoomAttempts
                     THEN PhaseMazes ELSE PhaseRooms
  /\ RoomFrame

\* One pass of the loop whose room does not fit: only the counter moves and
\* the loop goes round again, whatever maxRoomAttempts is.
rejectRoom ==
  /\ phase = PhaseRooms
  /\ pc = "placing"
  /\ Width \div 2 > 0 /\ Height \div 2 > 0
  /\ \E i \in 1 .. Len(roomSizes), rx \in 0 .. (Width \div 2) - 1,
        ry \in 0 .. (Height \div 2) - 1 :
       ~roomFits(NewRoom(i, rx, ry))
  /\ curRoomAttempts' = IF curRoomAttempts < AttemptCap
                            THEN curRoomAttempts + 1 ELSE AttemptCap
  /\ UNCHANGED <<phase, pc, terrainGrid, regionGrid, roomList>>
  /\ RoomFrame

\* rng.Intn(0) panics: a grid one cell wide or high has Width/2 = 0.
roomPanic ==
  /\ phase = PhaseRooms
  /\ pc = "placing"
  /\ (Width \div 2 = 0 \/ Height \div 2 = 0)
  /\ pc' = "panic"
  /\ UNCHANGED <<phase, curRoomAttempts, terrainGrid, regionGrid, roomList>>
  /\ RoomFrame

\* ---- mazes --------------------------------------------------------------
\* The cell `steps` cells away from (px, py) in direction d.
Ahead(px, py, d, steps) ==
  CASE d = North -> <<px, py - steps>>
    [] d = South -> <<px, py + steps>>
    [] d = East -> <<px + steps, py>>
    [] d = West -> <<px - steps, py>>

\* canCarve without the test that the cell two steps away is Stone
canCarve_noStoneTest(px, py, d) ==
  CASE d = North -> ~(py - 2 < 0)
    [] d = South -> ~(py + 2 >= Height)
    [] d = East -> ~(px + 2 >= Width)
    [] d = West -> ~(px - 2 < 0)

\* canCarve, asked at (px, py): the cell two steps away is inside the grid in
\* the direction of travel and is Stone.
canCarve(px, py, d) ==
  LET t == Ahead(px, py, d, 2) IN
    /\ CASE d = North -> ~(py - 2 < 0)
         [] d = South -> ~(py + 2 >= Height)
         [] d = East -> ~(px + 2 >= Width)
         [] d = West -> ~(px - 2 < 0)
    /\ TerrainAt(t[1], t[2]) = Stone

\* doCarve with a stride of one: only the one-step cell becomes Corridor and
\* the cursor moves one step
doCarve_oneStep(px, py, d) ==
  LET a == Ahead(px, py, d, 1)
  IN  /\ terrainGrid' = Set(terrainGrid, a[1], a[2], Corridor)
      /\ regionGrid' = Set(regionGrid, a[1], a[2], currentRegion)
      /\ x' = a[1]
      /\ y' = a[2]

\* doCarve from (px, py): the one-step and the two-step cell become Corridor
\* of the current region and the cursor moves two steps.
doCarve(px, py, d) ==
  LET a == Ahead(px, py, d, 1)
      b == Ahead(px, py, d, 2)
  IN  /\ terrainGrid' =
           Set(Set(terrainGrid, a[1], a[2], Corridor), b[1], b[2], Corridor)
      /\ regionGrid' =
           Set(Set(regionGrid, a[1], a[2], currentRegion), b[1], b[2],
               currentRegion)
      /\ x' = b[1]
      /\ y' = b[2]

\* Everything the Mazes phase leaves alone.
MazeFrame ==
  UNCHANGED <<Width, Height, maxRoomAttempts, curRoomAttempts, connectorGrid,
              roomList, unconnectedRooms, rootRegion, connectors,
              rootConnectors, deadEnds, deadEndsRemoved,
              deadEndsPreviouslyRemoved, pc, world>>

\* startWalking at (sx, sy)
startWalking(sx, sy) ==
  /\ nextRegion
  /\ terrainGrid' = Set(terrainGrid, sx, sy, Corridor)
  /\ regionGrid' = Set(regionGrid, sx, sy, curRegionID)
  /\ visitedMazeLocations' = visitedMazeLocations \cup {<<sx, sy>>}
  /\ walking' = TRUE

\* carveMaze ending the phase at the first row that has no Stone column,
\* whatever rows are still incomplete
carveMaze_noRescan ==
  IF incompleteRows # {}
  THEN \E scanY \in incompleteRows :
         LET cols == incompleteCols \cup OddCols(Width)
             stone == {c \in cols : TerrainAt(c, scanY) = Stone}
         IN  IF stone # {}
             THEN \E scanX \in stone, popped \in SUBSET (cols \ stone) :
                    /\ x' = scanX
                    /\ y' = scanY
                    /\ startWalking(scanX, scanY)
                    /\ incompleteCols' = cols \ popped
                    /\ UNCHANGED <<incompleteRows, phase>>
             ELSE /\ incompleteCols' = {}
                  /\ incompleteRows' = {}
                  /\ phase' = PhaseConnectors
                  /\ UNCHANGED <<x, y, terrainGrid, regionGrid,
                                 visitedMazeLocations, walking, regions,
                                 curRegionID, currentRegion>>
  ELSE /\ phase' = PhaseConnectors
       /\ UNCHANGED <<x, y, terrainGrid, regionGrid, visitedMazeLocations,
                      walking, regions, curRegionID, currentRegion,
                      incompleteRows, incompleteCols>>

\* carveMaze: all columns are appended to incompleteCols, rows and columns are
\* shuffled, and the columns of the first row are popped up to the first one
\* that is Stone, where a walk starts; a row without one is removed.
carveMaze ==
  IF incompleteRows # {}
  THEN \E scanY \in incompleteRows :
         LET cols == incompleteCols \cup OddCols(Width)
             stone == {c \in cols : TerrainAt(c, scanY) = Stone}
         IN  IF stone # {}
             THEN \E scanX \in stone, popped \in SUBSET (cols \ stone) :
                    /\ x' = scanX
                    /\ y' = scanY
                    /\ startWalking(scanX, scanY)
                    /\ incompleteCols' = cols \ popped
                    /\ UNCHANGED <<incompleteRows, phase>>
             ELSE /\ incompleteCols' = {}
                  /\ incompleteRows' = incompleteRows \ {scanY}
                  /\ UNCHANGED <<x, y, terrainGrid, regionGrid,
                                 visitedMazeLocations, walking, regions,
                                 curRegionID, currentRegion, phase>>
  ELSE /\ phase' = PhaseConnectors
       /\ UNCHANGED <<x, y, terrainGrid, regionGrid, visitedMazeLocations,
                      walking, regions, curRegionID, currentRegion,
                      incompleteRows, incompleteCols>>

\* The directions canCarve allows at (px, py).
Carvable(px, py) == {d \in Directions : canCarve(px, py, d)}

\* mazeWalk succeeding: the first carvable direction of a shuffled list is
\* carved and the new position is appended to visitedMazeLocations.
mazeWalk ==
  /\ Carvable(x, y) # {}
  /\ \E d \in Carvable(x, y) :
       /\ doCarve(x, y, d)
       /\ visitedMazeLocations' =
            visitedMazeLocations \cup {Ahead(x, y, d, 2)}
  /\ walking' = TRUE
  /\ UNCHANGED <<regions, curRegionID, currentRegion>>

\* mazeHunt succeeding, after mazeWalk found nothing: the visited list is
\* shuffled, the positions in front of the first one with a carvable
\* direction are dropped, and the carve is done from that one.  The carved
\* position is not appended.
mazeHuntFound ==
  /\ Carvable(x, y) = {}
  /\ LET live == {p \in visitedMazeLocations : Carvable(p[1], p[2]) # {}}
     IN  \E p \in live, dropped \in SUBSET (visitedMazeLocations \ live) :
           /\ \E d \in Carvable(p[1], p[2]) : doCarve(p[1], p[2], d)
           /\ visitedMazeLocations' = visitedMazeLocations \ dropped
  /\ walking' = TRUE
  /\ UNCHANGED <<regions, curRegionID, currentRegion>>

\* mazeHunt failing: every visited position is tried and dropped, the cursor
\* rests on the last one tried, and walk mints the next region.
mazeHuntFailed ==
  /\ Carvable(x, y) = {}
  /\ \A p \in visitedMazeLocations : Carvable(p[1], p[2]) = {}
  /\ IF visitedMazeLocations = {}
     THEN UNCHANGED <<x, y>>
     ELSE \E p \in visitedMazeLocations : x' = p[1] /\ y' = p[2]
  /\ visitedMazeLocations' = {}
  /\ walking' = FALSE
  /\ nextRegion
  /\ UNCHANGED <<terrainGrid, regionGrid>>

\* walk
walk ==
  /\ (mazeWalk \/ mazeHuntFound \/ mazeHuntFailed)
  /\ UNCHANGED <<incompleteRows, incompleteCols, phase>>

\* generateMazes, which Update's loop calls without returning in between.
generateMazes ==
  /\ phase = PhaseMazes
  /\ pc = "idle"
  /\ IF walking THEN walk ELSE carveMaze
  /\ inUpdate' = TRUE
  /\ MazeFrame

\* ---- connectors ---------------------------------------------------------
Walkable(t) == t = Room \/ t = Corridor

\* isConnectorTile looking at the east/west neighbours only
isConnectorTile_eastWestOnly(px, py) ==
  LET e == TerrainAt(px + 1, py)
      w == TerrainAt(px - 1, py)
      eRegion == RegionAt(px + 1, py)
      wRegion == RegionAt(px - 1, py)
  IN  IF Walkable(e) /\ Walkable(w) /\ eRegion # wRegion
      THEN [region1 |-> eRegion, region2 |-> wRegion]
      ELSE NoConnector

\* isConnectorTile: NoConnector, or the two regions of the first axis (east/west,
\* then north/south) whose two neighbours are Room or Corridor cells of
\* different regions.
isConnectorTile(px, py) ==
  LET e == TerrainAt(px + 1, py)
      w == TerrainAt(px - 1, py)
      n == TerrainAt(px, py - 1)
      s == TerrainAt(px, py + 1)
      eRegion == RegionAt(px + 1, py)
      wRegion == RegionAt(px - 1, py)
      nRegion == RegionAt(px, py - 1)
      sRegion == RegionAt(px, py + 1)
  IN  IF Walkable(e) /\ Walkable(w) /\ eRegion # wRegion
      THEN [region1 |-> eRegion, region2 |-> wRegion]
      ELSE IF Walkable(n) /\ Walkable(s) /\ nRegion # sRegion
           THEN [region1 |-> nRegion, region2 |-> sRegion]
           ELSE NoConnector

\* isConnectorTile reads region.id of both neighbours of a walkable pair: a
\* walkable cell without a region is a nil dereference.
ConnectorNilDeref(px, py) ==
  \/ /\ Walkable(TerrainAt(px + 1, py)) /\ Walkable(TerrainAt(px - 1, py))
     /\ (RegionAt(px + 1, py) = Nil \/ RegionAt(px - 1, py) = Nil)
  \/ /\ Walkable(TerrainAt(px, py + 1)) /\ Walkable(TerrainAt(px, py - 1))
     /\ (RegionAt(px, py + 1) = Nil \/ RegionAt(px, py - 1) = Nil)

Interior == {c \in Cells : c[1] >= 1 /\ c[1] < Width - 1
                             /\ c[2] >= 1 /\ c[2] < Height - 1}

\* generateConnectors storing what it finds with regionGrid.Set instead of
\* connectorGrid.Set: the connector cell gets the first region of the pair
generateConnectors_intoRegionGrid ==
  /\ phase = PhaseConnectors
  /\ pc = "idle"
  /\ regionGrid' =
       [c \in DOMAIN regionGrid |->
          IF c \in Interior /\ isConnectorTile(c[1], c[2]) # NoConnector
          THEN isConnectorTile(c[1], c[2]).region1
          ELSE regionGrid[c]]
  /\ connectors' =
       connectors \cup
         {c \in Interior : isConnectorTile(c[1], c[2]) # NoConnector}
  /\ phase' = PhaseConnectingRegions
  /\ inUpdate' = FALSE
  /\ UNCHANGED <<Width, Height, maxRoomAttempts, curRoomAttempts,
                 terrainGrid, connectorGrid, roomList, unconnectedRooms, x,
                 y, incompleteRows, incompleteCols, visitedMazeLocations,
                 walking, regions, curRegionID, currentRegion, rootRegion,
                 rootConnectors, deadEnds, deadEndsRemoved,
                 deadEndsPreviouslyRemoved, pc, world>>

\* generateConnectors; Update returns after it.
generateConnectors ==
  /\ phase = PhaseConnectors
  /\ pc = "idle"
  /\ IF \E c \in Interior : ConnectorNilDeref(c[1], c[2])
     THEN /\ pc' = "panic"
          /\ UNCHANGED <<connectorGrid, connectors, phase>>
     ELSE /\ connectorGrid' =
               [c \in DOMAIN connectorGrid |->
                  IF c \in Interior /\ isConnectorTile(c[1], c[2]) # NoConnector
                  THEN isConnectorTile(c[1], c[2])
                  ELSE connectorGrid[c]]
          /\ connectors' =
               connectors \cup
                 {c \in Interior : isConnectorTile(c[1], c[2]) # NoConnector}
          /\ phase' = PhaseConnectingRegions
          /\ UNCHANGED pc
  /\ inUpdate' = FALSE
  /\ UNCHANGED <<Width, Height, maxRoomAttempts, curRoomAttempts,
                 terrainGrid, regionGrid, roomList, unconnectedRooms, x, y,
                 incompleteRows, incompleteCols, visitedMazeLocations,
                 walking, regions, curRegionID, currentRegion, rootRegion,
                 rootConnectors, deadEnds, deadEndsRemoved,
                 deadEndsPreviouslyRemoved, world>>

\* ---- connecting regions -------------------------------------------------
\* The permutations of 1..n: what shuffleArray can make of a slice of n.
Perms(n) ==
  {f \in [1 .. n -> 1 .. n] : \A i, j \in 1 .. n : i # j => f[i] # f[j]}

\* connectorIsBesideDoor
connectorIsBesideDoor(c) ==
  LET e == TerrainAt(c[1] + 1, c[2])
      w == TerrainAt(c[1] - 1, c[2])
      n == TerrainAt(c[1], c[2] - 1)
      s == TerrainAt(c[1], c[2] + 1)
  IN  e = Door \/ w = Door \/ n = Door \/ s = Door

\* connectsRootToUnconnectedRegion asking only that a side is the root
connectsRootToUnconnectedRegion_eitherSide(connector, root) ==
  connector.region1 = root \/ connector.region2 = root

\* connectsRootToUnconnectedRegion, for root region `root`
connectsRootToUnconnectedRegion(connector, root) ==
  \/ connector.region1 = root /\ connector.region2 # root
  \/ connector.region2 = root /\ connector.region1 # root

\* replaceRegion leaving the Region Grid as it is
replaceRegionGrid_untouched(g, oldRegion, newRegion) == g

\* replaceRegion with its two regions the wrong way round
replaceRegionGrid_swapped(g, oldRegion, newRegion) ==
  [c \in DOMAIN g |-> IF g[c] # Nil /\ g[c] = newRegion THEN oldRegion ELSE g[c]]

\* replaceRegion on the Region Grid
replaceRegionGrid(g, oldRegion, newRegion) ==
  [c \in DOMAIN g |-> IF g[c] # Nil /\ g[c] = oldRegion THEN newRegion ELSE g[c]]

\* replaceRegion replacing only region1 of the connector records
replaceRegionConnectors_region1Only(g, oldRegion, newRegion) ==
  [c \in DOMAIN g |->
     IF g[c] = NoConnector THEN g[c]
     ELSE [region1 |-> IF g[c].region1 = oldRegion THEN newRegion
                       ELSE g[c].region1,
           region2 |-> g[c].region2]]

\* replaceRegion on the connector records, reached through connectorGrid
replaceRegionConnectors(g, oldRegion, newRegion) ==
  [c \in DOMAIN g |->
     IF g[c] = NoConnector THEN g[c]
     ELSE [region1 |-> IF g[c].region1 = oldRegion THEN newRegion
                       ELSE g[c].region1,
           region2 |-> IF g[c].region2 = oldRegion THEN newRegion
                       ELSE g[c].region2]]

\* connectRegions not stopping at its first success: every root connector
\* between the root and the region merged becomes a Door in the same call.
mergeAt_everyConnector(c, root) ==
  LET otherRegion == IF connectorGrid[c].region1 = root
                     THEN connectorGrid[c].region2
                     ELSE connectorGrid[c].region1
      joins(d) == /\ connectorGrid[d] # NoConnector
                  /\ {connectorGrid[d].region1, connectorGrid[d].region2}
                       = {root, otherRegion}
  IN  /\ terrainGrid' =
           [d \in DOMAIN terrainGrid |->
              IF d = c \/ joins(d) THEN Door ELSE terrainGrid[d]]
      /\ regionGrid' =
           replaceRegionGrid(
             [d \in DOMAIN regionGrid |->
                IF d = c \/ joins(d) THEN root ELSE regionGrid[d]],
             otherRegion, root)
      /\ connectorGrid' =
           replaceRegionConnectors(connectorGrid, otherRegion, root)
      /\ regions' = regions \ {otherRegion}

\* The merge of connectRegions opening the connector cell as a Corridor
\* instead of a Door
mergeAt_asCorridor(c, root) ==
  LET otherRegion == IF connectorGrid[c].region1 = root
                     THEN connectorGrid[c].region2
                     ELSE connectorGrid[c].region1
  IN  /\ terrainGrid' = Set(terrainGrid, c[1], c[2], Corridor)
      /\ regionGrid' =
           replaceRegionGrid(Set(regionGrid, c[1], c[2], root), otherRegion,
                             root)
      /\ connectorGrid' =
           replaceRegionConnectors(connectorGrid, otherRegion, root)
      /\ regions' = regions \ {otherRegion}

\* The merge connectRegions does at connector c: the cell becomes a Door of
\* the root region, the other region is replaced by the root everywhere and
\* deleted from mg.regions.
mergeAt(c, root) ==
  LET otherRegion == IF connectorGrid[c].region1 = root
                     THEN connectorGrid[c].region2
                     ELSE connectorGrid[c].region1
  IN  /\ terrainGrid' = Set(terrainGrid, c[1], c[2], Door)
      /\ regionGrid' =
           replaceRegionGrid(Set(regionGrid, c[1], c[2], root), otherRegion,
                             root)
      /\ connectorGrid' =
           replaceRegionConnectors(connectorGrid, otherRegion, root)
      /\ regions' = regions \ {otherRegion}

\* findRootConnectors testing only region1 against the root region
findRootConnectors_region1Only(root) ==
  {c \in connectors :
     connectorGrid[c].region1 = root /\ connectorGrid[c].region2 # root}

\* findRootConnectors: the connectors of the pool with exactly one side in
\* the root region.
findRootConnectors(root) ==
  {c \in connectors :
     \/ connectorGrid[c].region1 = root /\ connectorGrid[c].region2 # root
     \/ connectorGrid[c].region1 # root /\ connectorGrid[c].region2 = root}

\* connectRegions turning the first root connector it pops into a door,
\* without the test for a door beside it and without the test of its regions
connectFrom_acceptAll(root) ==
  LET refill == rootConnectors = {}
      rc == IF refill THEN findRootConnectors(root) ELSE rootConnectors
      pool == IF refill THEN connectors \ rc ELSE connectors
  IN  /\ connectors' = pool
      /\ IF rc = {}
         THEN /\ phase' = PhaseRemoveDeadEnds
              /\ rootConnectors' = {}
              /\ UNCHANGED <<terrainGrid, regionGrid, connectorGrid, regions>>
         ELSE \E c \in rc :
                /\ rootConnectors' = rc \ {c}
                /\ mergeAt(c, root)
                /\ UNCHANGED phase

\* connectRegions ending the phase when every popped root connector was
\* rejected, instead of returning for the next call to refill the list
connectFrom_endWhenNoneGood(root) ==
  LET refill == rootConnectors = {}
      rc == IF refill THEN findRootConnectors(root) ELSE rootConnectors
      pool == IF refill THEN connectors \ rc ELSE connectors
      good == {c \in rc : /\ ~connectorIsBesideDoor(c)
                          /\ connectsRootToUnconnectedRegion(connectorGrid[c],
                                                             root)}
  IN  /\ connectors' = pool
      /\ IF good = {}
         THEN /\ phase' = PhaseRemoveDeadEnds
              /\ rootConnectors' = {}
              /\ UNCHANGED <<terrainGrid, regionGrid, connectorGrid, regions>>
         ELSE \E c \in good, skipped \in SUBSET (rc \ good) :
                /\ rootConnectors' = rc \ (skipped \cup {c})
                /\ mergeAt(c, root)
                /\ UNCHANGED phase

\* connectRegions after the root region is known to be `root`: refill the
\* root connectors when there are none (ending the phase when there are
\* still none), then pop root connectors until one is merged or none is left.
connectFrom(root) ==
  LET refill == rootConnectors = {}
      rc == IF refill THEN findRootConnectors(root) ELSE rootConnectors
      pool == IF refill THEN connectors \ rc ELSE connectors
      good == {c \in rc : /\ ~connectorIsBesideDoor(c)
                          /\ connectsRootToUnconnectedRegion(connectorGrid[c],
                                                             root)}
  IN  /\ connectors' = pool
      /\ IF rc = {}
         THEN /\ phase' = PhaseRemoveDeadEnds
              /\ rootConnectors' = {}
              /\ UNCHANGED <<terrainGrid, regionGrid, connectorGrid, regions>>
         ELSE IF good = {}
              THEN /\ rootConnectors' = {}
                   /\ UNCHANGED <<terrainGrid, regionGrid, connectorGrid,
                                  regions, phase>>
              ELSE \E c \in good, skipped \in SUBSET (rc \ good) :
                     /\ rootConnectors' = rc \ (skipped \cup {c})
                     /\ mergeAt(c, root)
                     /\ UNCHANGED phase

\* selectRootRegion with the shuffle giving permutation perm: the rooms are
\* appended to unconnectedRooms, shuffled, and the last one is taken.
shuffledRooms(perm) ==
  LET all == unconnectedRooms \o roomList
  IN  [i \in 1 .. Len(all) |-> all[perm[i]]]

\* connectRegions; Update returns after it.
connectRegions ==
  /\ phase = PhaseConnectingRegions
  /\ pc = "idle"
  /\ IF Cardinality(regions) = 1
     THEN /\ phase' = PhaseRemoveDeadEnds
          /\ UNCHANGED <<terrainGrid, regionGrid, connectorGrid, regions,
                         connectors, rootConnectors, rootRegion,
                         unconnectedRooms, pc>>
     ELSE IF rootRegion = Nil
          THEN IF Len(unconnectedRooms \o roomList) = 0
               THEN \* unconnectedRooms[len(unconnectedRooms)-1] with no room
                    /\ pc' = "panic"
                    /\ UNCHANGED <<terrainGrid, regionGrid, connectorGrid,
                                   regions, connectors, rootConnectors,
                                   rootRegion, unconnectedRooms, phase>>
               ELSE \E perm \in Perms(Len(unconnectedRooms \o roomList)) :
                      LET rooms == shuffledRooms(perm)
                          rootRoom == rooms[Len(rooms)]
                      IN  /\ unconnectedRooms' =
                               SubSeq(rooms, 1, Len(rooms) - 1)
                          /\ rootRegion' = rootRoom.Region
                          /\ connectFrom(rootRoom.Region)
                          /\ UNCHANGED pc
          ELSE /\ connectFrom(rootRegion)
               /\ UNCHANGED <<rootRegion, unconnectedRooms, pc>>
  /\ inUpdate' = FALSE
  /\ UNCHANGED <<Width, Height, maxRoomAttempts, curRoomAttempts, roomList,
                 x, y, incompleteRows, incompleteCols, visitedMazeLocations,
                 walking, curRegionID, currentRegion, deadEnds,
                 deadEndsRemoved, deadEndsPreviouslyRemoved, world>>

\* ---- dead ends ----------------------------------------------------------
\* getNeighbours
getNeighbours(px, py) ==
  <<TerrainAt(px, py - 1), TerrainAt(px, py + 1), TerrainAt(px + 1, py),
    TerrainAt(px - 1, py)>>

\* isDeadEnd looking at Corridor tiles only, as its comment describes it
isDeadEnd_corridorOnly(px, py) ==
  LET t == TerrainAt(px, py)
      neighbours == getNeighbours(px, py)
      corridorNeighbours ==
        Cardinality({i \in 1 .. 4 : neighbours[i] # Stone})
  IN  /\ t = Corridor
      /\ corridorNeighbours = 1

\* isDeadEnd
isDeadEnd(px, py) ==
  LET t == TerrainAt(px, py)
      neighbours == getNeighbours(px, py)
      corridorNeighbours ==
        Cardinality({i \in 1 .. 4 : neighbours[i] # Stone})
  IN  /\ ~(t # Corridor /\ t # Door)
      /\ corridorNeighbours = 1

\* findDeadEnds: the dead ends in scan order, row by row
RECURSIVE InScanOrder(_)
InScanOrder(S) ==
  IF S = {} THEN <<>>
  ELSE LET first == CHOOSE c \in S :
                      \A d \in S : c[2] * Width + c[1] <= d[2] * Width + d[1]
       IN  <<first>> \o InScanOrder(S \ {first})

findDeadEnds == InScanOrder({c \in Cells : isDeadEnd(c[1], c[2])})

\* removeDeadEnds filling the dead ends with Stone and leaving their region
removeDeadEnds_keepRegion ==
  /\ deadEndsPreviouslyRemoved' = deadEndsRemoved
  /\ deadEnds' = findDeadEnds
  /\ terrainGrid' =
       [c \in DOMAIN terrainGrid |->
          IF isDeadEnd(c[1], c[2]) THEN Stone ELSE terrainGrid[c]]
  /\ regionGrid' = regionGrid
  /\ deadEndsRemoved' = deadEndsRemoved + Len(deadEnds')
  /\ phase' = IF deadEndsPreviouslyRemoved' = deadEndsRemoved'
              THEN PhaseDone ELSE phase

\* removeDeadEnds ending the phase after its first pass
removeDeadEnds_singlePass ==
  /\ deadEndsPreviouslyRemoved' = deadEndsRemoved
  /\ deadEnds' = findDeadEnds
  /\ terrainGrid' =
       [c \in DOMAIN terrainGrid |->
          IF isDeadEnd(c[1], c[2]) THEN Stone ELSE terrainGrid[c]]
  /\ regionGrid' =
       [c \in DOMAIN regionGrid |->
          IF isDeadEnd(c[1], c[2]) THEN Nil ELSE regionGrid[c]]
  /\ deadEndsRemoved' = deadEndsRemoved + Len(deadEnds')
  /\ phase' = PhaseDone

\* removeDeadEnds: one pass
removeDeadEnds ==
  /\ deadEndsPreviouslyRemoved' = deadEndsRemoved
  /\ deadEnds' = findDeadEnds
  /\ terrainGrid' =
       [c \in DOMAIN terrainGrid |->
          IF isDeadEnd(c[1], c[2]) THEN Stone ELSE terrainGrid[c]]
  /\ regionGrid' =
       [c \in DOMAIN regionGrid |->
          IF isDeadEnd(c[1], c[2]) THEN Nil ELSE regionGrid[c]]
  /\ deadEndsRemoved' = deadEndsRemoved + Len(deadEnds')
  /\ phase' = IF deadEndsPreviouslyRemoved' = deadEndsRemoved'
              THEN PhaseDone ELSE phase

\* ---- the driver ---------------------------------------------------------
\* Update in phase RemoveDeadEnds: one pass, then return.
updateRemoveDeadEnds ==
  /\ phase = PhaseRemoveDeadEnds
  /\ pc = "idle"
  /\ removeDeadEnds
  /\ inUpdate' = FALSE
  /\ UNCHANGED <<Width, Height, maxRoomAttempts, curRoomAttempts,
                 connectorGrid, roomList, unconnectedRooms, x, y,
                 incompleteRows, incompleteCols, visitedMazeLocations,
                 walking, regions, curRegionID, currentRegion, rootRegion,
                 connectors, rootConnectors, pc, world>>

\* Update in phase Done starting the generation over
updateDone_restart ==
  /\ phase = PhaseDone
  /\ pc = "idle"
  /\ phase' = PhaseRooms
  /\ curRoomAttempts' = 0
  /\ UNCHANGED <<Width, Height, maxRoomAttempts, terrainGrid, regionGrid,
                 connectorGrid, roomList, unconnectedRooms, x, y,
                 incompleteRows, incompleteCols, visitedMazeLocations,
                 walking, regions, curRegionID, currentRegion, rootRegion,
                 connectors, rootConnectors, deadEnds, deadEndsRemoved,
                 deadEndsPreviouslyRemoved, pc, inUpdate, world>>

\* Update in phase Done: the loop "for mg.phase != PhaseDone" is not entered.
updateDone ==
  /\ phase = PhaseDone
  /\ pc = "idle"
  /\ UNCHANGED vars

\* Update: the phase functions in the order its loop dispatches them.
Update ==
  \/ generateRooms
  \/ placeRoom
  \/ rejectRoom
  \/ roomPanic
  \/ generateMazes
  \/ generateConnectors
  \/ connectRegions
  \/ updateRemoveDeadEnds
  \/ updateDone

Next == Update

Spec == Init /\ [][Next]_vars

\* The scheduling of the driver: the host's game loop calls Update on every
\* tick, and a call that is inside a loop goes on to the next pass.
FairSpec == Spec /\ WF_vars(Next)

\* ---- the ECS world by itself ---------------------------------------------
\* A call of World.AddSystem by the host.
addSystemCall ==
  /\ \E system \in SystemKinds : world' = AddSystem(world, system)
  /\ UNCHANGED generatorVars

\* A call of World.AddEntity by the host.
addEntityCall ==
  /\ \E kind \in EntityKinds :
       /\ world.nextUniqueID + Len(EntityNew(kind)) <= MaxUniqueID
       /\ world' = AddEntity(world, kind)
  /\ UNCHANGED generatorVars

\* A call of World.AddComponent by the host, for an entity it has added.
addComponentCall ==
  /\ world.nextUniqueID <= MaxUniqueID
  /\ \E entityID \in MapKeys(world.entities), name \in ComponentNames :
       world' = AddComponent(world, entityID, name)
  /\ UNCHANGED generatorVars

EcsInit ==
  /\ NewMapGenerator(1, 1, 0)
  /\ world = NewWorld

EcsNext == addSystemCall \/ addEntityCall \/ addComponentCall

EcsSpec == EcsInit /\ [][EcsNext]_vars

\* ---- a grid by itself ---------------------------------------------------
TerrainTypes == {Stone, Room, Corridor, Door}

\* A call of Grid.Set on the Terrain Grid and on the Region Grid, at any
\* coordinates from one cell outside the grid on every side.
gridSet ==
  /\ \E px \in -1 .. Width, py \in -1 .. Height, t \in TerrainTypes :
       /\ terrainGrid' = Set(terrainGrid, px, py, t)
       /\ regionGrid' = Set(regionGrid, px, py, IF t = Stone THEN Nil ELSE 0)
  /\ UNCHANGED <<Width, Height, phase, maxRoomAttempts, curRoomAttempts,
                 connectorGrid, roomList, unconnectedRooms, x, y,
                 incompleteRows, incompleteCols, visitedMazeLocations,
                 walking, regions, curRegionID, currentRegion, rootRegion,
                 connectors, rootConnectors, deadEnds, deadEndsRemoved,
                 deadEndsPreviouslyRemoved, pc, inUpdate, world>>

\* A call of Grid.SetRect on the Terrain Grid and on the Region Grid, as
\* addRoom makes them, with the origin at any coordinates from one cell
\* outside the grid on every side and sides of 0 to MaxRectSide cells.
gridSetRect ==
  /\ \E px \in -1 .. Width, py \in -1 .. Height,
        w \in 0 .. MaxRectSide, h \in 0 .. MaxRectSide, t \in TerrainTypes :
       /\ terrainGrid' = SetRect(terrainGrid, px, py, w, h, t)
       /\ regionGrid' =
            SetRect(regionGrid, px, py, w, h, IF t = Stone THEN Nil ELSE 0)
  /\ UNCHANGED <<Width, Height, phase, maxRoomAttempts, curRoomAttempts,
                 connectorGrid, roomList, unconnectedRooms, x, y,
                 incompleteRows, incompleteCols, visitedMazeLocations,
                 walking, regions, curRegionID, currentRegion, rootRegion,
                 connectors, rootConnectors, deadEnds, deadEndsRemoved,
                 deadEndsPreviouslyRemoved, pc, inUpdate, world>>

GridInit ==
  /\ \E width \in 1 .. GridMaxCells, height \in 1 .. GridMaxCells :
       /\ width * height <= GridMaxCells
       /\ NewMapGenerator(width, height, 0)
  /\ world = NewWorld

GridNext == gridSet \/ gridSetRect

GridSpec == GridInit /\ [][GridNext]_vars

\* ---- a wide dungeon -----------------------------------------------------
\* NewMapGenerator(WideWidth, WideHeight, WideAttempts): a grid with room for
\* three regions in a row, so that a region can touch the root region only
\* through another one.
WideInit ==
  /\ NewMapGenerator(WideWidth, WideHeight, WideAttempts)
  /\ world = NewWorld

\* Update on a grid where rng.Intn is never called with 0.
WideNext ==
  \/ generateRooms
  \/ placeRoom
  \/ rejectRoom
  \/ generateMazes
  \/ generateConnectors
  \/ connectRegions
  \/ updateRemoveDeadEnds
  \/ updateDone

WideSpec == WideInit /\ [][WideNext]_vars

\* ---- a dungeon without rooms --------------------------------------------
\* NewMapGenerator(MazeSide, MazeSide, 0): a square grid that the mazes fill
\* alone, large enough for a walk to be stuck more than once.
MazeInit ==
  /\ NewMapGenerator(MazeSide, MazeSide, 0)
  /\ world = NewWorld

\* Update with an attempt budget of 0: no room is ever drawn, and
\* ConnectingRegions is as far as the generator gets.
MazeNext ==
  \/ generateRooms
  \/ generateMazes
  \/ generateConnectors
  \/ connectRegions

MazeSpec == MazeInit /\ [][MazeNext]_vars

\* ---- properties ---------------------------------------------------------
NonStone == {c \in Cells : terrainGrid[c] # Stone}

Neighbours4(c) ==
  {<<c[1] + 1, c[2]>>, <<c[1] - 1, c[2]>>, <<c[1], c[2] + 1>>,
   <<c[1], c[2] - 1>>}

\* The cells a flood fill over non-Stone cells reaches: `reached` so far,
\* `frontier` the cells reached last.
RECURSIVE FloodFill(_, _)
FloodFill(reached, frontier) ==
  LET next == {c \in UNION {Neighbours4(d) : d \in frontier} :
                 /\ c \in Cells
                 /\ terrainGrid[c] # Stone
                 /\ c \notin reached}
  IN  IF next = {} THEN reached ELSE FloodFill(reached \cup next, next)

HasTile(t) == \E c \in Cells : terrainGrid[c] = t

\* C1: once ConnectingRegions has completed (phases RemoveDeadEnds and
\* Done), a flood fill from any non-Stone cell reaches every non-Stone cell.
C1_FullConnectivity ==
  phase \in {PhaseRemoveDeadEnds, PhaseDone} =>
    \A c \in NonStone : FloodFill({c}, {c}) = NonStone

\* ConnectingRegions has just completed on a grid with a room, a maze and a
\* door that joins them.
C1_Witness ==
  /\ phase = PhaseRemoveDeadEnds
  /\ deadEndsRemoved = 0
  /\ HasTile(Room) /\ HasTile(Corridor) /\ HasTile(Door)

\* C2: repeated calls of Update eventually reach phase Done.
C2_EventuallyDone == <>(phase = PhaseDone)

\* C4: the attempt counter never exceeds maxRoomAttempts, and once the phase
\* has left Rooms the counter equals maxRoomAttempts.
C4_ExactlyMaxAttempts ==
  /\ curRoomAttempts <= maxRoomAttempts
  /\ phase # PhaseRooms => curRoomAttempts = maxRoomAttempts

RoomCells(r) ==
  {c \in (r.X .. r.X + r.Width - 1) \X (r.Y .. r.Y + r.Height - 1) : TRUE}

\* C5: no two rooms of the room list have a cell in common.
C5_NoRoomOverlap ==
  \A i, j \in 1 .. Len(roomList) :
    i # j => RoomCells(roomList[i]) \cap RoomCells(roomList[j]) = {}

\* Two rooms have been accepted.
C5_Witness == Len(roomList) >= 2

OddSizes == {3, 5, 7, 9, 11}

\* C6: every accepted room has odd X and Y, a size of the palette with both
\* values odd and in 3..11, and lies inside the 1-cell border.
C6_RoomValidity ==
  \A i \in 1 .. Len(roomList) :
    LET r == roomList[i] IN
      /\ r.X % 2 = 1 /\ r.Y % 2 = 1
      /\ \E k \in 1 .. Len(roomSizes) :
           r.Width = roomSizes[k][1] /\ r.Height = roomSizes[k][2]
      /\ r.Width \in OddSizes /\ r.Height \in OddSizes
      /\ r.X >= 1 /\ r.Y >= 1
      /\ r.X + r.Width <= Width - 1 /\ r.Y + r.Height <= Height - 1

\* A room that touches the far side of the interior has been accepted.
C6_Witness ==
  \E i \in 1 .. Len(roomList) :
    /\ roomList[i].X + roomList[i].Width = Width - 1
    /\ roomList[i].Width # roomList[i].Height

OpenNeighbours(c) ==
  Cardinality({d \in Neighbours4(c) : d \in Cells /\ terrainGrid[d] # Stone})

C8_IdempotentAfterDone == [][phase = PhaseDone => UNCHANGED vars]_vars

\* Done has been reached with a dungeon on the grid and Update can be called.
C8_Witness ==
  /\ phase = PhaseDone
  /\ ENABLED updateDone
  /\ HasTile(Room)

\* The order of the phases of the state machine.
PhaseOrder ==
  <<PhaseRooms, PhaseMazes, PhaseConnectors, PhaseConnectingRegions,
    PhaseRemoveDeadEnds, PhaseDone>>

PhaseIndex(p) == CHOOSE i \in 1 .. Len(PhaseOrder) : PhaseOrder[i] = p

\* C9: every step leaves the phase alone or moves it to the next phase of
\* Rooms, Mazes, Connectors, ConnectingRegions, RemoveDeadEnds, Done.
C9_PhaseForward ==
  [][\/ phase' = phase
     \/ PhaseIndex(phase') = PhaseIndex(phase) + 1]_vars

\* All six phases have been passed through, each doing work.
C9_Witness ==
  /\ phase = PhaseDone
  /\ Len(roomList) >= 1
  /\ rootRegion # Nil
  /\ deadEndsRemoved > 0

\* C10: when ConnectingRegions has completed, mg.regions holds exactly one
\* region.
C10_OneRegionLeft ==
  phase \in {PhaseRemoveDeadEnds, PhaseDone} => Cardinality(regions) = 1

\* C11: with an attempt budget of 0 no step of the generation fails: the
\* generator never stops in a panic.
C11_ZeroAttemptsNoFailure == maxRoomAttempts = 0 => pc # "panic"

\* C12: on a grid too small for the smallest room inside the border (width
\* or height below 5), whatever the attempt budget, the generation
\* eventually reaches Done.
C12_SmallGridReachesDone ==
  (Width < 5 \/ Height < 5) => <>(phase = PhaseDone)

\* C13: a cell has a region exactly when its tile is Room, Corridor or Door;
\* a Stone cell has none; a Door carries the root region.
C13_RegionTerrainAgree ==
  \A c \in Cells :
    /\ regionGrid[c] # Nil <=> terrainGrid[c] \in {Room, Corridor, Door}
    /\ terrainGrid[c] = Stone => regionGrid[c] = Nil
    /\ terrainGrid[c] = Door => regionGrid[c] = rootRegion

\* The pruner has filled dead ends and a door is still on the grid.
C13_Witness ==
  /\ phase = PhaseRemoveDeadEnds
  /\ deadEndsRemoved > 0
  /\ HasTile(Door)
  /\ HasTile(Room)

\* C14: when a phase function has returned and the phase is not Done, the
\* call of Update that ran it has returned too: no call goes on to a second
\* phase-step.
C14_OneStepPerCall == (pc = "idle" /\ phase # PhaseDone) => ~inUpdate

\* The odd-aligned interior cells.
OddLattice ==
  {c \in Cells : /\ c[1] % 2 = 1 /\ c[2] % 2 = 1
                 /\ c[1] >= 1 /\ c[1] < Width - 1
                 /\ c[2] >= 1 /\ c[2] < Height - 1}

\* C15: once the Mazes phase has completed (and until dead ends are
\* pruned) every odd-aligned interior cell is Room or Corridor.
C15_MazesFillLattice ==
  phase \in {PhaseConnectors, PhaseConnectingRegions} =>
    \A c \in OddLattice : terrainGrid[c] \in {Room, Corridor}

\* The Mazes phase has just completed on a grid with a room and a maze.
C15_Witness ==
  /\ phase = PhaseConnectors
  /\ HasTile(Room) /\ HasTile(Corridor)
  /\ Cardinality(OddLattice) >= 4

\* C16: for the Terrain Grid and the Region Grid of the state and all
\* coordinates from one cell outside on every side: Get out of bounds is
\* the zero value and in bounds the cell; Set out of bounds leaves the grid
\* as it is; Set in bounds makes the cell the value and leaves every other
\* cell alone; the extent of the grid stays Width by Height.
C16_GridAccessTotal ==
  /\ DOMAIN terrainGrid = Cells /\ DOMAIN regionGrid = Cells
  /\ \A px \in -1 .. Width, py \in -1 .. Height :
       /\ Get(terrainGrid, Stone, px, py) =
            IF InBounds(px, py) THEN terrainGrid[<<px, py>>] ELSE Stone
       /\ Get(regionGrid, Nil, px, py) =
            IF InBounds(px, py) THEN regionGrid[<<px, py>>] ELSE Nil
       /\ \A t \in TerrainTypes :
            LET g == Set(terrainGrid, px, py, t) IN
              /\ DOMAIN g = DOMAIN terrainGrid
              /\ IF InBounds(px, py)
                 THEN /\ Get(g, Stone, px, py) = t
                      /\ g[<<px, py>>] = t
                      /\ \A c \in Cells : c # <<px, py>> => g[c] = terrainGrid[c]
                 ELSE g = terrainGrid
       /\ \A r \in {Nil, 0, 1} :
            LET g == Set(regionGrid, px, py, r) IN
              /\ DOMAIN g = DOMAIN regionGrid
              /\ IF InBounds(px, py)
                 THEN /\ Get(g, Nil, px, py) = r
                      /\ g[<<px, py>>] = r
                      /\ \A c \in Cells : c # <<px, py>> => g[c] = regionGrid[c]
                 ELSE g = regionGrid

\* A grid of two rows on which Set has written different tiles.
C16_Witness ==
  /\ Width = 2 /\ Height = 2
  /\ terrainGrid[<<1, 0>>] = Door
  /\ terrainGrid[<<0, 1>>] = Room
  /\ regionGrid[<<1, 1>>] = Nil

\* The number of times entity e was given a component called name.
TimesAdded(e, name) ==
  IF MapHas(world.componentEntities, name)
  THEN Cardinality({k \in 1 .. Len(MapGet(world.componentEntities, name)) :
                      MapGet(world.componentEntities, name)[k] = e})
  ELSE 0

\* C17: for every entity and component name, GetComponentIDsForEntity
\* returns exactly one id of a component of that name when the entity was
\* given such a component, however often, and none when it was not.
C17_OneComponentPerName ==
  \A e \in MapKeys(world.entities) :
    \A name \in {"location", "move", "render", "health"} :
      LET ids == GetComponentIDsForEntity(world, e) IN
        Cardinality({i \in 1 .. Len(ids) :
                       MapGet(world.components, ids[i]) = name})
          = IF TimesAdded(e, name) > 0 THEN 1 ELSE 0

\* An entity was given a component of the same name twice.
C17_Witness ==
  \E e \in MapKeys(world.entities) : TimesAdded(e, "location") >= 2

\* C18: a cell that becomes a Door has no Door beside it, before or after
\* the step; so no two Doors are ever 4-directionally adjacent.
C18_NoAdjacentDoors ==
  [][\A c \in Cells :
       (terrainGrid[c] # Door /\ terrainGrid'[c] = Door) =>
         \A d \in Neighbours4(c) :
           d \in Cells => (terrainGrid[d] # Door /\ terrainGrid'[d] # Door)]_vars

\* ConnectingRegions has completed with a door and, beside it, a connector
\* that was not turned into a door.
C18_Witness ==
  /\ phase = PhaseRemoveDeadEnds
  /\ deadEndsRemoved = 0
  /\ \E c \in Cells :
       /\ terrainGrid[c] = Door
       /\ \E d \in Neighbours4(c) :
            /\ d \in Cells
            /\ connectorGrid[d] # NoConnector
            /\ terrainGrid[d] = Stone

C20_MergeRemovesOneRegion ==
  [][\A c \in Cells :
       (terrainGrid[c] # Door /\ terrainGrid'[c] = Door) =>
         LET r1 == connectorGrid[c].region1
             r2 == connectorGrid[c].region2
             other == IF r1 = rootRegion' THEN r2 ELSE r1
         IN  /\ (r1 = rootRegion') # (r2 = rootRegion')
             /\ other \in regions
             /\ regions' = regions \ {other}
             /\ Cardinality(regions') = Cardinality(regions) - 1
             /\ rootRegion' \in regions']_vars

\* Two merges have been done: two doors, and the root region is live.
C20_Witness ==
  /\ Cardinality({c \in Cells : terrainGrid[c] = Door}) >= 2
  /\ rootRegion \in regions

\* The cells of a Terrain Grid that hold a Door.
DoorCells(g) == {c \in DOMAIN g : g[c] = Door}

\* C21: one call of the ConnectingRegions step places at most one Door and
\* removes at most one region from mg.regions.
C21_OneMergePerCall ==
  [][phase = PhaseConnectingRegions =>
       /\ Cardinality(DoorCells(terrainGrid') \ DoorCells(terrainGrid)) <= 1
       /\ Cardinality(regions \ regions') <= 1]_vars

\* A call has merged a region through a connector while another root
\* connector was still waiting: a Door is on the grid, a region is gone and
\* the phase goes on.
C21_Witness ==
  /\ phase = PhaseConnectingRegions
  /\ Cardinality(DoorCells(terrainGrid)) = 1
  /\ rootConnectors # {}
  /\ Cardinality(regions) + 1 = curRegionID

\* Connector c of connector grid g has exactly one of its two regions equal
\* to root.
HalfRoot(g, c, root) == (g[c].region1 = root) # (g[c].region2 = root)

\* C22: ConnectingRegions ends only on a step that finds one live region, or
\* whose root-connector list is empty and whose pool holds no connector with
\* exactly one region equal to the root; and once the phase has ended no
\* connector of the pool or of the root-connector list has exactly one
\* region equal to the root.
C22_NoRootConnectorLeft ==
  [][/\ (phase = PhaseConnectingRegions /\ phase' # PhaseConnectingRegions)
          => \/ Cardinality(regions) = 1
             \/ /\ rootConnectors = {}
                /\ \A c \in connectors :
                     ~HalfRoot(connectorGrid, c, rootRegion')
     /\ phase' \in {PhaseRemoveDeadEnds, PhaseDone}
          => \A c \in connectors' \cup rootConnectors' :
               ~HalfRoot(connectorGrid', c, rootRegion')]_vars

\* After a merge the root-connector list has emptied while the pool holds a
\* connector that now touches the root: the next call must refill from it.
C22_Witness ==
  /\ phase = PhaseConnectingRegions
  /\ HasTile(Door)
  /\ rootConnectors = {}
  /\ \E c \in connectors : HalfRoot(connectorGrid, c, rootRegion)

\* C23: a ConnectingRegions step taken with more than one live region, an
\* empty root-connector list and no pool connector with exactly one region
\* equal to the root advances the phase to RemoveDeadEnds.
C23_ForcedTermination ==
  [][(/\ phase = PhaseConnectingRegions
      /\ Cardinality(regions) > 1
      /\ rootConnectors = {}
      /\ \A c \in connectors : ~HalfRoot(connectorGrid, c, rootRegion'))
       => phase' = PhaseRemoveDeadEnds]_vars

\* Cells a and b are both Room or Corridor and lie in different regions.
JoinsTwoRegions(a, b) ==
  /\ terrainGrid[a] \in {Room, Corridor}
  /\ terrainGrid[b] \in {Room, Corridor}
  /\ regionGrid[a] # regionGrid[b]

EastWestJoin(c) ==
  JoinsTwoRegions(<<c[1] + 1, c[2]>>, <<c[1] - 1, c[2]>>)

NorthSouthJoin(c) ==
  JoinsTwoRegions(<<c[1], c[2] - 1>>, <<c[1], c[2] + 1>>)

C25_ConnectorsFrame ==
  [][phase = PhaseConnectors =>
       /\ UNCHANGED <<terrainGrid, regionGrid, roomList, regions>>
       /\ phase' = PhaseConnectingRegions]_vars

\* The Connectors step has run on a dungeon with a room and has filled the
\* connector list and the Connector Grid.
C25_Witness ==
  /\ phase = PhaseConnectingRegions
  /\ rootRegion = Nil
  /\ Len(roomList) >= 1
  /\ connectors # {}
  /\ \A c \in connectors : connectorGrid[c] # NoConnector

\* A step of the walker that changes the Terrain Grid: a carve of mazeWalk or
\* of mazeHunt.
CarveStep == phase = PhaseMazes /\ walking /\ terrainGrid' # terrainGrid

\* C26: a carve starts at a Corridor cell of the current region and goes to
\* a cell two steps away that is inside the grid and Stone; it turns exactly
\* the one-step and the two-step cell, both Stone, into Corridor of the
\* current region and leaves the cursor on the two-step cell; and after
\* every step no Corridor cell has both coordinates even.
C26_OneCellWide ==
  [][/\ CarveStep =>
          \E p \in Cells, d \in Directions :
            LET one == Ahead(p[1], p[2], d, 1)
                two == Ahead(p[1], p[2], d, 2)
            IN  /\ terrainGrid[p] = Corridor
                /\ regionGrid[p] = currentRegion
                /\ two \in Cells
                /\ terrainGrid[one] = Stone
                /\ terrainGrid[two] = Stone
                /\ \A c \in Cells :
                     /\ terrainGrid'[c] =
                          IF c \in {one, two} THEN Corridor
                          ELSE terrainGrid[c]
                     /\ regionGrid'[c] =
                          IF c \in {one, two} THEN currentRegion
                          ELSE regionGrid[c]
                /\ <<x', y'>> = two
     /\ \A c \in Cells :
          terrainGrid'[c] = Corridor => (c[1] % 2 = 1 \/ c[2] % 2 = 1)]_vars

\* A maze has been carved round a corner: Corridor cells with an even
\* column and Corridor cells with an even row are on the grid.
C26_Witness ==
  /\ \E c \in Cells : terrainGrid[c] = Corridor /\ c[1] % 2 = 0
  /\ \E c \in Cells : terrainGrid[c] = Corridor /\ c[2] % 2 = 0

\* The regions that own a Corridor cell: the regions of the maze runs.
MazeRegions == {regionGrid[c] : c \in {d \in Cells : terrainGrid[d] = Corridor}}

RegionCells(r) == {c \in Cells : regionGrid[c] = r}

\* The cells of region r a flood fill reaches: `reached` so far, `frontier`
\* the cells reached last.
RECURSIVE RegionFill(_, _, _)
RegionFill(r, reached, frontier) ==
  LET next == {c \in UNION {Neighbours4(d) : d \in frontier} :
                 /\ c \in Cells
                 /\ regionGrid[c] = r
                 /\ c \notin reached}
  IN  IF next = {} THEN reached ELSE RegionFill(r, reached \cup next, next)

\* C27: during the Mazes phase and at its end every region of a maze run is a
\* tree: its cells are all Corridor, a flood fill inside the region from one
\* of its cells reaches all of them, and it has twice as many cells as it
\* has cells with odd x and odd y, minus one.
C27_MazeRegionsAreTrees ==
  phase \in {PhaseMazes, PhaseConnectors} =>
    \A r \in MazeRegions :
      /\ \A c \in RegionCells(r) : terrainGrid[c] = Corridor
      /\ LET c == CHOOSE d \in RegionCells(r) : TRUE
         IN  RegionFill(r, {c}, {c}) = RegionCells(r)
      /\ Cardinality(RegionCells(r)) =
           2 * Cardinality({c \in RegionCells(r) :
                              c[1] % 2 = 1 /\ c[2] % 2 = 1}) - 1

\* The Mazes phase has ended with a maze run of at least four lattice cells
\* beside a room.
C27_Witness ==
  /\ phase = PhaseConnectors
  /\ HasTile(Room)
  /\ \E r \in MazeRegions : Cardinality(RegionCells(r)) >= 7

\* C28: on the step that ends a maze run (walking becomes false) no Corridor
\* cell with odd x and odd y of the region of that run has a Stone cell of
\* the grid two steps away in any of the four directions.
C28_ExhaustedMeansNoCarve ==
  [][(phase = PhaseMazes /\ walking /\ ~walking') =>
       \A c \in Cells :
         (/\ c[1] % 2 = 1 /\ c[2] % 2 = 1
          /\ terrainGrid'[c] = Corridor
          /\ regionGrid'[c] = currentRegion)
           => \A d \in Directions :
                LET two == Ahead(c[1], c[2], d, 2)
                IN  ~(two \in Cells /\ terrainGrid'[two] = Stone)]_vars

\* C29: at the end of the Mazes phase mg.regions has as many regions as
\* there are placed rooms and maze runs together, and every region of
\* mg.regions owns at least one cell of the Region Grid.
C29_RegionsAreRoomsAndMazes ==
  phase = PhaseConnectors =>
    /\ Cardinality(regions) = Len(roomList) + Cardinality(MazeRegions)
    /\ \A r \in regions : RegionCells(r) # {}

\* C30: a step never lowers curRegionID; a region that enters mg.regions has
\* the id curRegionID had before the step, and the step raises curRegionID
\* by one; every id in mg.regions, in the Region Grid, in the room list and
\* in the connector records is below curRegionID. So an id is handed out
\* once, in increasing order, whatever has been removed since.
C30_RegionIdsUnique ==
  [][/\ curRegionID' >= curRegionID
     /\ regions' \ regions \subseteq {curRegionID}
     /\ regions' \ regions # {} => curRegionID' = curRegionID + 1
     /\ \A r \in regions' : r < curRegionID'
     /\ \A c \in Cells :
          /\ regionGrid'[c] # Nil => regionGrid'[c] < curRegionID'
          /\ connectorGrid'[c] # NoConnector =>
               /\ connectorGrid'[c].region1 < curRegionID'
               /\ connectorGrid'[c].region2 < curRegionID'
     /\ \A i, j \in 1 .. Len(roomList') :
          i < j => roomList'[i].Region < roomList'[j].Region]_vars

\* Regions were minted for a room, for a maze run and at the end of that
\* run, and a merge has removed one of them since.
C30_Witness ==
  /\ Len(roomList) >= 1
  /\ curRegionID >= 3
  /\ HasTile(Door)
  /\ Cardinality(regions) < curRegionID

\* Cell c is a Corridor or Door cell with exactly one cardinal neighbour
\* inside the grid that is not Stone.
DeadEndCell(c) ==
  /\ terrainGrid[c] \in {Corridor, Door}
  /\ Cardinality({n \in Neighbours4(c) :
                    n \in Cells /\ terrainGrid[n] # Stone}) = 1

C32_RootSelectedOnce ==
  [][/\ rootRegion # Nil => rootRegion' = rootRegion
     /\ (rootRegion = Nil /\ rootRegion' # Nil) =>
          (phase = PhaseConnectingRegions /\ Cardinality(regions) > 1)
     /\ (/\ phase = PhaseConnectingRegions
         /\ Cardinality(regions) > 1
         /\ rootRegion = Nil) => rootRegion' # Nil
     /\ rootRegion' # Nil =>
          /\ rootRegion' \in regions'
          /\ \E i \in 1 .. Len(roomList') :
               roomList'[i].Region = rootRegion']_vars

\* The ids of the components called name, in the order they were made.
RECURSIVE Ascending(_)
Ascending(S) ==
  IF S = {} THEN <<>>
  ELSE LET least == CHOOSE i \in S : \A j \in S : i <= j
       IN  <<least>> \o Ascending(S \ {least})

IdsOfName(name) ==
  Ascending({id \in MapKeys(world.components) :
               MapGet(world.components, id) = name})

\* The entity that component id was added to: ids are handed out in the
\* order of the AddComponent calls, and componentEntities[name] holds the
\* entity of every call in the same order.
OwnerOf(id) ==
  LET name == MapGet(world.components, id)
      ids == IdsOfName(name)
      k == CHOOSE i \in 1 .. Len(ids) : ids[i] = id
  IN  MapGet(world.componentEntities, name)[k]

\* The entities that have every component the system operates on.
EntitiesWithAll(system) ==
  {e \in MapKeys(world.entities) :
     \A i \in 1 .. Len(SystemComponentNames(system)) :
       /\ MapHas(world.entityComponents, e)
       /\ MapHas(MapGet(world.entityComponents, e),
                 SystemComponentNames(system)[i])}

\* C33: for every registered system that operates on components,
\* IterateComponents ends normally, calls f as many times as there are
\* entities with all of the system's components, each call has ids of one
\* entity only, and no two calls are for the same entity.
C33_IterateOncePerEntity ==
  \A system \in MapKeys(world.systems) :
    Len(SystemComponentNames(system)) > 0 =>
      LET r == IterateComponents(world, system)
          entityOf(call) == OwnerOf((CHOOSE p \in call : TRUE)[2])
      IN  /\ ~r.panic
          /\ Len(r.calls) = Cardinality(EntitiesWithAll(system))
          /\ \A i \in 1 .. Len(r.calls) :
               /\ \A p \in r.calls[i] : OwnerOf(p[2]) = entityOf(r.calls[i])
               /\ entityOf(r.calls[i]) \in EntitiesWithAll(system)
               /\ \A j \in 1 .. Len(r.calls) :
                    i # j => entityOf(r.calls[i]) # entityOf(r.calls[j])

\* C34: after every step that ends in phase Rooms, Mazes or Connectors, no
\* two 4-adjacent cells that are not Stone lie in different regions and
\* every cell that is not Stone has a region; and the connector scan records
\* connectors on Stone cells only.
C34_RegionsApartBeforeDoors ==
  [][/\ phase' \in {PhaseRooms, PhaseMazes, PhaseConnectors} =>
          \A c \in Cells :
            terrainGrid'[c] # Stone =>
              /\ regionGrid'[c] # Nil
              /\ \A d \in Neighbours4(c) :
                   (d \in Cells /\ terrainGrid'[d] # Stone) =>
                     regionGrid'[d] = regionGrid'[c]
     /\ phase = PhaseConnectors =>
          \A c \in connectors' : terrainGrid[c] = Stone]_vars

\* The Mazes phase has ended with a room and a maze on the two sides of a
\* Stone cell.
C34_Witness ==
  /\ phase = PhaseConnectors
  /\ \E c \in Cells :
       /\ terrainGrid[c] = Stone
       /\ \E d, e \in Neighbours4(c) \cap Cells :
            /\ terrainGrid[d] = Room
            /\ terrainGrid[e] = Corridor
            /\ regionGrid[d] # regionGrid[e]

\* C35: every cell of the outermost rows and columns of the grid is Stone.
C35_BorderIsStone ==
  \A c \in Cells :
    (c[1] = 0 \/ c[1] = Width - 1 \/ c[2] = 0 \/ c[2] = Height - 1) =>
      terrainGrid[c] = Stone

\* C36: a step changes the tile of a cell only from Stone to Room in phase
\* Rooms, from Stone to Corridor in phase Mazes, from Stone to Door in phase
\* ConnectingRegions, or from Corridor or Door to Stone in phase
\* RemoveDeadEnds; so a Room cell stays a Room cell.
C36_TileTransitions ==
  [][\A c \in Cells :
       terrainGrid'[c] # terrainGrid[c] =>
         \/ /\ terrainGrid[c] = Stone /\ terrainGrid'[c] = Room
            /\ phase = PhaseRooms
         \/ /\ terrainGrid[c] = Stone /\ terrainGrid'[c] = Corridor
            /\ phase = PhaseMazes
         \/ /\ terrainGrid[c] = Stone /\ terrainGrid'[c] = Door
            /\ phase = PhaseConnectingRegions
         \/ /\ terrainGrid[c] \in {Corridor, Door} /\ terrainGrid'[c] = Stone
            /\ phase = PhaseRemoveDeadEnds]_vars

\* Tiles of every kind were written and a pass has turned dead ends back
\* into Stone.
C36_Witness ==
  /\ phase = PhaseRemoveDeadEnds
  /\ HasTile(Room) /\ HasTile(Corridor) /\ HasTile(Door)
  /\ deadEndsRemoved > 0

\* The regions that own a cell of the Region Grid g.
OwningRegions(g) == {g[c] : c \in {d \in DOMAIN g : g[d] # Nil}}

\* C37: no Door exists when ConnectingRegions begins; a ConnectingRegions
\* step places as many Doors as regions leave mg.regions and as regions stop
\* owning cells, each on a recorded connector cell that was Stone; and when
\* the phase ends one region owns all cells that have a region. So the
\* Doors number one less than the regions that owned cells at the end of
\* the Mazes phase.
C37_DoorsSpanRegions ==
  [][/\ (phase # PhaseConnectingRegions /\ phase' = PhaseConnectingRegions)
          => DoorCells(terrainGrid') = {}
     /\ phase = PhaseConnectingRegions =>
          /\ Cardinality(DoorCells(terrainGrid')) =
               Cardinality(DoorCells(terrainGrid))
                 + Cardinality(regions \ regions')
          /\ Cardinality(OwningRegions(regionGrid')) =
               Cardinality(OwningRegions(regionGrid))
                 - Cardinality(regions \ regions')
          /\ \A c \in DoorCells(terrainGrid') \ DoorCells(terrainGrid) :
               /\ terrainGrid[c] = Stone
               /\ connectorGrid[c] # NoConnector
               /\ c \in connectors \cup rootConnectors
     /\ (phase = PhaseConnectingRegions /\ phase' # PhaseConnectingRegions)
          => Cardinality(OwningRegions(regionGrid')) = 1]_vars

\* ConnectingRegions has just ended after two regions were absorbed into the
\* root through two Doors.
C37_Witness ==
  /\ phase = PhaseRemoveDeadEnds
  /\ deadEndsRemoved = 0
  /\ Cardinality(DoorCells(terrainGrid)) = 2

\* C38: a step taken in phase ConnectingRegions that leaves the phase
\* ConnectingRegions lowers the number of connectors in the pool and in the
\* root-connector list together.
C38_ConnectorsDecrease ==
  [][(phase = PhaseConnectingRegions /\ phase' = PhaseConnectingRegions) =>
       Cardinality(connectors') + Cardinality(rootConnectors')
         < Cardinality(connectors) + Cardinality(rootConnectors)]_vars

\* C39: once ConnectingRegions has completed (phases RemoveDeadEnds and
\* Done) every cell of the Region Grid that has a region holds the same
\* one, and it is the root region when a root was selected.
C39_OneRegionOnGrid ==
  phase \in {PhaseRemoveDeadEnds, PhaseDone} =>
    /\ Cardinality(OwningRegions(regionGrid)) <= 1
    /\ rootRegion # Nil => OwningRegions(regionGrid) \subseteq {rootRegion}

\* Pruning has gone on after the end of ConnectingRegions in a dungeon whose
\* rooms and mazes were merged into the root region.
C39_Witness ==
  /\ phase \in {PhaseRemoveDeadEnds, PhaseDone}
  /\ deadEndsRemoved > 0
  /\ rootRegion # Nil
  /\ Cardinality(regions) < curRegionID
  /\ \E c \in Cells : terrainGrid[c] = Corridor /\ regionGrid[c] = rootRegion

\* The cells of the rectangle [px, px+w) x [py, py+h).
InRect(c, px, py, w, h) ==
  c[1] >= px /\ c[1] < px + w /\ c[2] >= py /\ c[2] < py + h

\* C40: for the Terrain Grid of the state, every origin from one cell
\* outside the grid on every side, all sides up to MaxRectSide and every
\* tile: after SetRect every cell of the grid inside the rectangle holds the
\* tile and every cell of the grid outside the rectangle holds what it held;
\* a rectangle without a cell in the grid leaves the grid as it was.
C40_SetRectClips ==
  \A px \in -1 .. Width, py \in -1 .. Height :
    \A w \in 0 .. MaxRectSide, h \in 0 .. MaxRectSide, t \in TerrainTypes :
      LET g == SetRect(terrainGrid, px, py, w, h, t) IN
        /\ DOMAIN g = Cells
        /\ \A c \in Cells :
             g[c] = IF InRect(c, px, py, w, h) THEN t ELSE terrainGrid[c]
        /\ (\A c \in Cells : ~InRect(c, px, py, w, h)) => g = terrainGrid

=============================================================================
